---- MODULE Spec2Model ----
(***************************************************************************)
(* Productivity calculator (src/App.tsx): the App component's state, its   *)
(* event handlers (field edit, options, Calculate, Reset) and the values   *)
(* it derives on render (the improvement scenario rows).                   *)
(*                                                                         *)
(* Text is a sequence of one-character strings (a unit suffix such as      *)
(* " horas" is kept as one element).  Numbers are JavaScript numbers       *)
(* modelled as exact rationals plus NaN and the two infinities; the        *)
(* rounding of IEEE doubles and the sign of zero are not modelled.         *)
(***************************************************************************)
EXTENDS Integers, Sequences, FiniteSets, TLC

(***************************************************************************)
(* JavaScript numbers                                                      *)
(***************************************************************************)
Abs(i) == IF i < 0 THEN -i ELSE i

RECURSIVE GCD(_, _)
GCD(a, b) == IF b = 0 THEN a ELSE GCD(b, a % b)

\* the finite number n/d in lowest terms with a positive denominator
Fin(n, d) ==
  LET s == IF d < 0 THEN -1 ELSE 1
      g == GCD(Abs(n), Abs(d))
  IN  [k |-> "fin", n |-> (s * n) \div g, d |-> (s * d) \div g]

Num(i) == [k |-> "fin", n |-> i, d |-> 1]
NaN == [k |-> "nan", n |-> 0, d |-> 1]
Inf(s) == [k |-> "inf", n |-> s, d |-> 1]

IsNaN(x) == x.k = "nan"
IsFinite(x) == x.k = "fin"
Sign(x) == IF x.n > 0 THEN 1 ELSE IF x.n < 0 THEN -1 ELSE 0

\* x * y
Mul(x, y) ==
  IF IsNaN(x) \/ IsNaN(y) THEN NaN
  ELSE IF IsFinite(x) /\ IsFinite(y) THEN Fin(x.n * y.n, x.d * y.d)
  ELSE IF Sign(x) * Sign(y) = 0 THEN NaN
  ELSE Inf(Sign(x) * Sign(y))

\* x / y: a zero divisor gives NaN (0/0) or an infinity, never a fault
Div(x, y) ==
  IF IsNaN(x) \/ IsNaN(y) THEN NaN
  ELSE IF IsFinite(x) /\ IsFinite(y)
       THEN IF y.n # 0 THEN Fin(x.n * y.d, x.d * y.n)
            ELSE IF x.n = 0 THEN NaN ELSE Inf(Sign(x))
  ELSE IF IsFinite(y) THEN Inf(Sign(x) * (IF y.n < 0 THEN -1 ELSE 1))
  ELSE IF IsFinite(x) THEN Num(0)
  ELSE NaN

\* x + y
Add(x, y) ==
  IF IsNaN(x) \/ IsNaN(y) THEN NaN
  ELSE IF IsFinite(x) /\ IsFinite(y) THEN Fin(x.n * y.d + y.n * x.d, x.d * y.d)
  ELSE IF IsFinite(x) THEN y
  ELSE IF IsFinite(y) THEN x
  ELSE IF x.n = y.n THEN x ELSE NaN

Neg(x) == IF IsNaN(x) THEN NaN ELSE [x EXCEPT !.n = -x.n]
Sub(x, y) == Add(x, Neg(y))

\* x > y and x <= y; every comparison with NaN is false
Gt(x, y) ==
  /\ ~IsNaN(x) /\ ~IsNaN(y)
  /\ IF IsFinite(x) /\ IsFinite(y) THEN x.n * y.d > y.n * x.d
     ELSE IF IsFinite(x) THEN y.n < 0
     ELSE IF IsFinite(y) THEN x.n > 0
     ELSE x.n > y.n
Le(x, y) == ~IsNaN(x) /\ ~IsNaN(y) /\ ~Gt(x, y)

\* Math.max(x, y)
MathMax(x, y) == IF IsNaN(x) \/ IsNaN(y) THEN NaN ELSE IF Gt(y, x) THEN y ELSE x

\* x || 0: NaN and 0 are falsy
OrZero(x) == IF IsNaN(x) \/ (IsFinite(x) /\ x.n = 0) THEN Num(0) ELSE x

RECURSIVE Pow10(_)
Pow10(f) == IF f = 0 THEN 1 ELSE 10 * Pow10(f - 1)

(***************************************************************************)
(* Text and conversions                                                    *)
(***************************************************************************)
Digits == <<"0", "1", "2", "3", "4", "5", "6", "7", "8", "9">>
IsDigit(c) == \E i \in 1..10 : Digits[i] = c
DigitVal(c) == (CHOOSE i \in 1..10 : Digits[i] = c) - 1

\* the index of the first character of s at or after i that is not a space
RECURSIVE SkipWs(_, _)
SkipWs(s, i) == IF i <= Len(s) /\ s[i] = " " THEN SkipWs(s, i + 1) ELSE i

\* the index of the first character of s at or after i that is not a digit
RECURSIVE DigitsEnd(_, _)
DigitsEnd(s, i) == IF i <= Len(s) /\ IsDigit(s[i]) THEN DigitsEnd(s, i + 1) ELSE i

\* the value of the decimal digits s[i..j] (0 for an empty run)
RECURSIVE DigitsValue(_, _, _)
DigitsValue(s, i, j) ==
  IF j < i THEN 0 ELSE 10 * DigitsValue(s, i, j - 1) + DigitVal(s[j])

\* parseFloat(s): leading spaces are skipped, then the longest prefix of the
\* form [+-] digits [. digits] is read; no digit at all gives NaN.  Exponents
\* and the literal Infinity never occur in the field texts of this model.
parseFloat(s) ==
  LET i0 == SkipWs(s, 1)
      signed == i0 <= Len(s) /\ s[i0] \in {"+", "-"}
      neg == signed /\ s[i0] = "-"
      i1 == IF signed THEN i0 + 1 ELSE i0
      i2 == DigitsEnd(s, i1)
      hasDot == i2 <= Len(s) /\ s[i2] = "."
      i3 == IF hasDot THEN DigitsEnd(s, i2 + 1) ELSE i2
      nInt == i2 - i1
      nFrac == IF hasDot THEN i3 - (i2 + 1) ELSE 0
      mag == DigitsValue(s, i1, i2 - 1) * Pow10(nFrac)
               + (IF hasDot THEN DigitsValue(s, i2 + 1, i3 - 1) ELSE 0)
  IN  IF nInt + nFrac = 0 THEN NaN
      ELSE Fin(IF neg THEN -mag ELSE mag, Pow10(nFrac))

\* the decimal digits of the natural number n
RECURSIVE DigitsOf(_)
DigitsOf(n) ==
  IF n < 10 THEN <<Digits[n + 1]>> ELSE DigitsOf(n \div 10) \o <<Digits[(n % 10) + 1]>>

RECURSIVE PadLeft(_, _)
PadLeft(ds, len) == IF Len(ds) >= len THEN ds ELSE PadLeft(<<"0">> \o ds, len)

\* |x| * 10^f rounded to the nearest integer, a tie going to the larger one
Scaled(x, f) == (2 * Abs(x.n) * Pow10(f) + x.d) \div (2 * x.d)

\* Number.prototype.toFixed(f), for magnitudes below 10^21
toFixed(x, f) ==
  IF IsNaN(x) THEN <<"N", "a", "N">>
  ELSE IF ~IsFinite(x)
       THEN (IF x.n < 0 THEN <<"-">> ELSE <<>>) \o <<"I", "n", "f", "i", "n", "i", "t", "y">>
  ELSE LET ds == PadLeft(DigitsOf(Scaled(x, f)), f + 1)
           cut == Len(ds) - f
       IN  (IF x.n < 0 THEN <<"-">> ELSE <<>>)
             \o SubSeq(ds, 1, cut)
             \o (IF f = 0 THEN <<>> ELSE <<".">> \o SubSeq(ds, cut + 1, Len(ds)))

\* integer digits grouped in threes with "."
RECURSIVE Group(_)
Group(ds) ==
  IF Len(ds) <= 3 THEN ds
  ELSE Group(SubSeq(ds, 1, Len(ds) - 3)) \o <<".">> \o SubSeq(ds, Len(ds) - 2, Len(ds))

\* Intl.NumberFormat('pt-BR', BRL currency, exactly `decimals` fraction digits)
formatCurrency(value, decimals) ==
  LET sign == IF ~IsNaN(value) /\ value.n < 0 THEN <<"-">> ELSE <<>>
      head == sign \o <<"R", "$", " ">>
  IN  IF IsNaN(value) THEN head \o <<"N", "a", "N">>
      ELSE IF ~IsFinite(value) THEN head \o <<"oo">>
      ELSE LET ds == PadLeft(DigitsOf(Scaled(value, decimals)), decimals + 1)
               cut == Len(ds) - decimals
           IN  head \o Group(SubSeq(ds, 1, cut))
                 \o (IF decimals = 0 THEN <<>>
                     ELSE <<",">> \o SubSeq(ds, cut + 1, Len(ds)))

(***************************************************************************)
(* State of the App component                                              *)
(***************************************************************************)
VARIABLES
  inputs,            \* useState<InputData>: the eight field texts
  results,           \* useState<CalculationResults | null>
  decimals,          \* useState<number>: fraction digits shown
  showImprovements,  \* useState<boolean>
  calculated,        \* history: Calculate was clicked since construction or the last Reset
  editsSince,        \* history: field edits since that Calculate
  divisors           \* history: the divisors of the divisions that Calculate performed

vars == <<inputs, results, decimals, showImprovements, calculated, editsSince, divisors>>

Fields ==
  {"totalHours", "productiveHours", "plannedTasks", "completedTasks",
   "valuePerHour", "estimatedCostPerDistraction", "distractions", "recoveryTime"}

Empty == <<>>

initialInputData == [f \in Fields |-> Empty]

Null == [k |-> "null"]

\* field edits between two Calculate clicks that the model follows
MaxEditsSince == 1

\* the texts an edit can put into a field
FieldTexts(name) ==
  CASE name = "totalHours" -> {Empty, <<"a", "b", "c">>, <<"0">>, <<"-", "5">>, <<"1", "0">>}
    [] name = "productiveHours" -> {Empty, <<"5">>, <<"4", "0">>}
    [] name = "plannedTasks" -> {Empty, <<"4">>}
    [] name = "completedTasks" -> {Empty, <<"5">>}
    [] name = "valuePerHour" -> {Empty, <<"3", "0", "0">>}
    [] name = "estimatedCostPerDistraction" -> {Empty, <<"a", "b", "c">>, <<"7">>}
    [] name = "distractions" -> {Empty, <<"7", "5">>, <<"1", "0">>}
    [] name = "recoveryTime" -> {Empty, <<"5">>}

DecimalOptions == {0, 1, 2, 3}

Init ==
  /\ inputs = initialInputData
  /\ results = Null
  /\ decimals = 2
  /\ showImprovements = TRUE
  /\ calculated = FALSE
  /\ editsSince = 0
  /\ divisors = {}

(***************************************************************************)
(* calculateResults                                                        *)
(***************************************************************************)
\* mutant of parseOrZero: the "|| 0" default is missing
parseOrZero_raw(text) == parseFloat(text)

\* parseFloat(text) || 0
parseOrZero(text) == OrZero(parseFloat(text))

\* a division that is performed, and a default taken instead of one
Quotient(x, y) == [v |-> Div(x, y), divs |-> {y}]
Default(x) == [v |-> x, divs |-> {}]

\* mutant of completionRatio: the division is not guarded
completionRatio_unguarded(completedTasks, plannedTasks) ==
  Quotient(completedTasks, plannedTasks)

\* plannedTasks > 0 ? completedTasks / plannedTasks : 0
completionRatio(completedTasks, plannedTasks) ==
  IF Gt(plannedTasks, Num(0)) THEN Quotient(completedTasks, plannedTasks)
  ELSE Default(Num(0))

\* productiveHours > 0 ? completedTasks / productiveHours : 0
taskEfficiencyOf(completedTasks, productiveHours) ==
  IF Gt(productiveHours, Num(0)) THEN Quotient(completedTasks, productiveHours)
  ELSE Default(Num(0))

\* mutant of distractionManagementScoreOf: the score is not clamped at 0
distractionManagementScoreOf_unclamped(timeLost, productiveHours) ==
  IF Gt(productiveHours, Num(0))
  THEN LET q == Quotient(timeLost, productiveHours)
       IN  [v |-> Mul(Sub(Num(1), q.v), Num(10)), divs |-> q.divs]
  ELSE Default(Num(0))

\* productiveHours > 0 ? Math.max(0, 1 - timeLost / productiveHours) * 10 : 0
distractionManagementScoreOf(timeLost, productiveHours) ==
  IF Gt(productiveHours, Num(0))
  THEN LET q == Quotient(timeLost, productiveHours)
       IN  [v |-> Mul(MathMax(Num(0), Sub(Num(1), q.v)), Num(10)), divs |-> q.divs]
  ELSE Default(Num(0))

\* mutant of noResult: the guard written with < instead of <=
noResult_strict(totalHours) == Gt(Num(0), totalHours)

\* if (totalHours <= 0) { setResults(null); return; }
noResult(totalHours) == Le(totalHours, Num(0))

\* mutant of timeLostOf: the minutes are not converted to hours
timeLostOf_minutes(distractions, recoveryTime) ==
  Default(Mul(distractions, recoveryTime))

\* (distractions * recoveryTime) / 60
timeLostOf(distractions, recoveryTime) ==
  Quotient(Mul(distractions, recoveryTime), Num(60))

\* the value calculateResults passes to setResults for the field texts inp,
\* with the divisors of the divisions it performs on the way
calculateResultsOf(inp) ==
  LET totalHours == parseOrZero(inp.totalHours)
      productiveHours == parseOrZero(inp.productiveHours)
      plannedTasks == parseOrZero(inp.plannedTasks)
      completedTasks == parseOrZero(inp.completedTasks)
      valuePerHour == parseOrZero(inp.valuePerHour)
      distractions == parseOrZero(inp.distractions)
      recoveryTime == parseOrZero(inp.recoveryTime)
  IN  IF noResult(totalHours) THEN [results |-> Null, divisors |-> {}]
      ELSE
        LET productivity == Quotient(productiveHours, totalHours)
            productivityRate == Mul(productivity.v, Num(100))
            completion == completionRatio(completedTasks, plannedTasks)
            taskCompletionRate == Mul(completion.v, Num(100))
            lost == timeLostOf(distractions, recoveryTime)
            timeLost == lost.v
            valueLost == Mul(timeLost, valuePerHour)
            taskEfficiency == taskEfficiencyOf(completedTasks, productiveHours)
            distractionManagementScore ==
              distractionManagementScoreOf(timeLost, productiveHours)
            efficiencyScore ==
              Add(Add(Mul(Div(productivityRate, Num(10)), Fin(4, 10)),
                      Mul(Div(taskCompletionRate, Num(10)), Fin(4, 10))),
                  Mul(distractionManagementScore.v, Fin(2, 10)))
        IN  [results |->
               [productivityRate |-> productivityRate,
                taskCompletionRate |-> taskCompletionRate,
                efficiencyScore |-> efficiencyScore,
                timeLost |-> timeLost,
                valueLost |-> valueLost,
                taskEfficiency |-> taskEfficiency.v],
             divisors |->
               productivity.divs \cup completion.divs \cup lost.divs
                 \cup taskEfficiency.divs \cup distractionManagementScore.divs
                 \cup {Num(10)}]

\* mutant of closureInputs: a callback created once, closing over the first render
closureInputs_initial == initialInputData

\* the inputs the calculateResults callback closes over: useCallback lists
\* inputs as a dependency, so the callback of each render sees that render's
closureInputs == inputs

(***************************************************************************)
(* Event handlers                                                          *)
(***************************************************************************)
\* mutant of handleInputChange: an edit also discards the stored results
handleInputChange_discardResults(name, value) ==
  /\ calculated => editsSince < MaxEditsSince
  /\ inputs' = [inputs EXCEPT ![name] = value]
  /\ results' = Null
  /\ editsSince' = IF calculated THEN editsSince + 1 ELSE editsSince
  /\ UNCHANGED <<decimals, showImprovements, calculated, divisors>>

\* handleInputChange for a text field: only the named field is replaced
handleInputChange(name, value) ==
  /\ calculated => editsSince < MaxEditsSince
  /\ inputs' = [inputs EXCEPT ![name] = value]
  /\ editsSince' = IF calculated THEN editsSince + 1 ELSE editsSince
  /\ UNCHANGED <<results, decimals, showImprovements, calculated, divisors>>

\* handleInputChange for the checkbox: checked is the box's new state
handleCheckboxChange(checked) ==
  /\ showImprovements' = checked
  /\ UNCHANGED <<inputs, results, decimals, calculated, editsSince, divisors>>

\* the decimals select: setDecimals(parseInt(e.target.value))
setDecimals(option) ==
  /\ decimals' = option
  /\ UNCHANGED <<inputs, results, showImprovements, calculated, editsSince, divisors>>

\* mutant of handleReset: the display options go back to their defaults too
handleReset_all ==
  /\ inputs' = initialInputData
  /\ results' = Null
  /\ decimals' = 2
  /\ showImprovements' = TRUE
  /\ calculated' = FALSE
  /\ editsSince' = 0
  /\ divisors' = {}

handleReset ==
  /\ inputs' = initialInputData
  /\ results' = Null
  /\ calculated' = FALSE
  /\ editsSince' = 0
  /\ divisors' = {}
  /\ UNCHANGED <<decimals, showImprovements>>

calculateResults ==
  LET r == calculateResultsOf(closureInputs)
  IN  /\ results' = r.results
      /\ divisors' = r.divisors
      /\ calculated' = TRUE
      /\ editsSince' = 0
      /\ UNCHANGED <<inputs, decimals, showImprovements>>

EditField == \E name \in Fields : \E value \in FieldTexts(name) : handleInputChange(name, value)
ToggleImprovements == handleCheckboxChange(~showImprovements)
SelectDecimals == \E option \in DecimalOptions : setDecimals(option)

Next ==
  \/ EditField
  \/ ToggleImprovements
  \/ SelectDecimals
  \/ calculateResults
  \/ handleReset

Spec == Init /\ [][Next]_vars

(***************************************************************************)
(* Values derived on render                                                *)
(***************************************************************************)
\* (parseFloat(inputs.<name>) || 0) as written in the render body
fieldNumber(name) == parseOrZero(inputs[name])

\* mutant of reduceDistractionsRow: the gain is taken from the full count
reduceDistractionsRow_fullGain ==
  LET distractions == fieldNumber("distractions")
      half == Mul(distractions, Fin(1, 2))
  IN  [area |-> "Reduzir Distracoes",
       current |-> toFixed(distractions, decimals) \o <<" distracoes">>,
       optimized |-> toFixed(half, decimals) \o <<" distracoes">>,
       gain |-> <<"-">> \o toFixed(distractions, decimals) \o <<" distracoes">>,
       addedValue |->
         formatCurrency(
           Mul(Div(Mul(half, fieldNumber("recoveryTime")), Num(60)),
               fieldNumber("valuePerHour")),
           decimals)]

reduceDistractionsRow ==
  LET distractions == fieldNumber("distractions")
      half == Mul(distractions, Fin(1, 2))
  IN  [area |-> "Reduzir Distracoes",
       current |-> toFixed(distractions, decimals) \o <<" distracoes">>,
       optimized |-> toFixed(half, decimals) \o <<" distracoes">>,
       gain |-> <<"-">> \o toFixed(half, decimals) \o <<" distracoes">>,
       addedValue |->
         formatCurrency(
           Mul(Div(Mul(half, fieldNumber("recoveryTime")), Num(60)),
               fieldNumber("valuePerHour")),
           decimals)]

increaseProductiveTimeRow ==
  LET productiveHours == fieldNumber("productiveHours")
  IN  [area |-> "Aumentar Tempo Produtivo",
       current |-> toFixed(productiveHours, decimals) \o <<" horas">>,
       optimized |-> toFixed(Mul(productiveHours, Fin(115, 100)), decimals) \o <<" horas">>,
       gain |-> <<"+">> \o toFixed(Mul(productiveHours, Fin(15, 100)), decimals) \o <<" horas">>,
       addedValue |->
         formatCurrency(
           Mul(Mul(productiveHours, Fin(15, 100)), fieldNumber("valuePerHour")),
           decimals)]

taskEfficiencyRow ==
  [area |-> "Eficiencia da Tarefa",
   current |-> toFixed(results.taskEfficiency, decimals) \o <<" tarefas/hora">>,
   optimized |-> toFixed(Mul(results.taskEfficiency, Fin(120, 100)), decimals) \o <<" tarefas/hora">>,
   gain |-> <<"+">> \o toFixed(Mul(results.taskEfficiency, Fin(20, 100)), decimals) \o <<" tarefas/hora">>,
   addedValue |->
     formatCurrency(
       Mul(Mul(fieldNumber("productiveHours"), Fin(20, 100)), fieldNumber("valuePerHour")),
       decimals)]

\* mutant of improvementScenarios: the rows are built only while the table is shown
improvementScenarios_shown ==
  IF results # Null /\ showImprovements
  THEN <<reduceDistractionsRow, increaseProductiveTimeRow, taskEfficiencyRow>>
  ELSE <<>>

\* the rows exist whenever results do, whether or not the table is shown
improvementScenarios ==
  IF results # Null
  THEN <<reduceDistractionsRow, increaseProductiveTimeRow, taskEfficiencyRow>>
  ELSE <<>>

\* parseFloat(text || '0') as written in the calculation details: only the
\* empty text is replaced before parsing
parseTextOrZeroText(text) == parseFloat(IF text = Empty THEN <<"0">> ELSE text)

\* the number each "Valores de Entrada" line reads from its field; the task,
\* distraction and recovery lines print the field text itself, and the steps
\* below read these fields with (parseFloat(...) || 0)
detailNumbers ==
  [totalHours |-> fieldNumber("totalHours"),
   productiveHours |-> fieldNumber("productiveHours"),
   plannedTasks |-> fieldNumber("plannedTasks"),
   completedTasks |-> fieldNumber("completedTasks"),
   valuePerHour |-> parseTextOrZeroText(inputs.valuePerHour),
   estimatedCostPerDistraction |-> parseTextOrZeroText(inputs.estimatedCostPerDistraction),
   distractions |-> fieldNumber("distractions"),
   recoveryTime |-> fieldNumber("recoveryTime")]

\* the lines of the details section that show a field as a number; the
\* section is rendered only while results are present
detailLines ==
  IF results # Null
  THEN [totalHours |-> toFixed(detailNumbers.totalHours, decimals) \o <<" hrs">>,
        productiveHours |-> toFixed(detailNumbers.productiveHours, decimals) \o <<" hrs">>,
        valuePerHour |-> formatCurrency(detailNumbers.valuePerHour, decimals),
        estimatedCostPerDistraction |->
          formatCurrency(detailNumbers.estimatedCostPerDistraction, decimals)]
  ELSE Null

(***************************************************************************)
(* Properties                                                              *)
(***************************************************************************)
\* Calculate has run and no field was edited since: results belong to inputs
Fresh == calculated /\ editsSince = 0

Zero == Num(0)
ResultFields ==
  {"productivityRate", "taskCompletionRate", "efficiencyScore",
   "timeLost", "valueLost", "taskEfficiency"}

\* C1 (as claimed): in every reachable state results are null whenever the
\* total-hours field currently parses to a value <= 0 or Calculate has not
\* been requested yet.
C1_ResultsAbsentWheneverTotalNonPositive ==
  (Le(fieldNumber("totalHours"), Zero) \/ ~calculated) => results = Null

\* C2: after Calculate with a total-hours text that is empty, non-numeric,
\* zero or negative, results are null, whatever was stored before and whatever
\* the other fields hold.
C2_NonPositiveTotalLeavesNull ==
  (Fresh /\ inputs.totalHours \in {Empty, <<"a", "b", "c">>, <<"0">>, <<"-", "5">>})
    => results = Null

C2_Witness ==
  /\ Fresh
  /\ inputs.totalHours = <<"-", "5">>
  /\ inputs.productiveHours = <<"5">>
  /\ inputs.completedTasks = <<"5">>
  /\ results = Null

\* C3 (as claimed): whenever results are present, efficiencyScore lies in the
\* closed range 0 to 10.
C3_EfficiencyScoreWithinTen ==
  results # Null =>
    /\ Le(Zero, results.efficiencyScore)
    /\ Le(results.efficiencyScore, Num(10))

\* C4: the results stored by Calculate are a function of the current eight
\* field texts only: as long as no field is edited after a Calculate, the
\* stored results are what the calculation gives for the current fields,
\* whatever was stored, edited, calculated or reset before.
C4_ResultsFunctionOfInputs ==
  Fresh => results = calculateResultsOf(inputs).results

C4_Witness ==
  /\ Fresh
  /\ results # Null
  /\ inputs.productiveHours = <<"5">>
  /\ inputs.distractions = <<"1", "0">>
  /\ results.productivityRate = Num(50)

\* C5: after Calculate, taskCompletionRate is 0 whenever planned tasks parses
\* to <= 0 and taskEfficiency is 0 whenever productive hours parses to <= 0,
\* whatever completed tasks is, and no division was performed with a zero
\* divisor.
C5_GuardedRatiosDefaultToZero ==
  Fresh =>
    /\ \A y \in divisors : IsFinite(y) /\ y.n # 0
    /\ results # Null =>
         /\ Le(fieldNumber("plannedTasks"), Zero) => results.taskCompletionRate = Zero
         /\ Le(fieldNumber("productiveHours"), Zero) => results.taskEfficiency = Zero

C5_Witness ==
  /\ Fresh
  /\ results # Null
  /\ inputs.plannedTasks = Empty
  /\ inputs.productiveHours = Empty
  /\ inputs.completedTasks = <<"5">>
  /\ results.taskCompletionRate = Zero
  /\ results.taskEfficiency = Zero
  /\ divisors = {Num(10), Num(60)}

\* C6: after Calculate with total hours > 0, productivityRate is
\* productiveHours / totalHours x 100, timeLost is distractions x
\* recoveryMinutes / 60 and valueLost is timeLost x valuePerHour (5 of 10
\* hours give 50; 10 distractions of 5 minutes give 50/60 hours), and the
\* estimated-cost-per-distraction text changes no stored metric.
C6_StoredFormulas ==
  (Fresh /\ Gt(fieldNumber("totalHours"), Zero)) =>
    /\ results # Null
    /\ results.productivityRate =
         Mul(Div(fieldNumber("productiveHours"), fieldNumber("totalHours")), Num(100))
    /\ results.timeLost =
         Div(Mul(fieldNumber("distractions"), fieldNumber("recoveryTime")), Num(60))
    /\ results.valueLost = Mul(results.timeLost, fieldNumber("valuePerHour"))
    /\ (inputs.productiveHours = <<"5">> /\ inputs.totalHours = <<"1", "0">>)
         => results.productivityRate = Num(50)
    /\ (inputs.distractions = <<"1", "0">> /\ inputs.recoveryTime = <<"5">>)
         => results.timeLost = Fin(50, 60)
    /\ \A cost \in FieldTexts("estimatedCostPerDistraction") :
         calculateResultsOf(
           [inputs EXCEPT !["estimatedCostPerDistraction"] = cost]).results = results

C6_Witness ==
  /\ Fresh
  /\ inputs.totalHours = <<"1", "0">>
  /\ inputs.productiveHours = <<"5">>
  /\ inputs.distractions = <<"1", "0">>
  /\ inputs.recoveryTime = <<"5">>
  /\ inputs.valuePerHour = <<"3", "0", "0">>
  /\ inputs.estimatedCostPerDistraction = <<"7">>
  /\ results # Null
  /\ results.valueLost = Num(250)

\* the field texts with every empty or unparsable text replaced by "0"
ZeroFilled(inp) ==
  [f \in Fields |-> IF IsNaN(parseFloat(inp[f])) THEN <<"0">> ELSE inp[f]]

\* C7: Calculate ends with results either null or a record of exactly the
\* six metrics, each a finite number, and an empty or non-numeric text in a
\* field counts exactly as the text "0" would.
C7_EmptyOrNonNumericCountsAsZero ==
  Fresh =>
    /\ \/ results = Null
       \/ /\ DOMAIN results = ResultFields
          /\ \A m \in ResultFields : IsFinite(results[m])
    /\ results = calculateResultsOf(ZeroFilled(inputs)).results

C7_Witness ==
  /\ Fresh
  /\ results # Null
  /\ inputs.productiveHours = Empty
  /\ inputs.plannedTasks = Empty
  /\ inputs.completedTasks = <<"5">>
  /\ inputs.recoveryTime = Empty
  /\ inputs.distractions = <<"7", "5">>
  /\ ZeroFilled(inputs) # inputs

\* C8: the improvement-scenario list has exactly 3 rows in the order Reduce
\* Distractions, Increase Productive Time, Task Efficiency when results are
\* present, and is empty when results are absent.
C8_ThreeRowsIffResults ==
  \A rows \in {improvementScenarios} :
    IF results # Null
    THEN /\ Len(rows) = 3
         /\ rows[1].area = "Reduzir Distracoes"
         /\ rows[2].area = "Aumentar Tempo Produtivo"
         /\ rows[3].area = "Eficiencia da Tarefa"
    ELSE rows = <<>>

C8_Witness ==
  /\ results # Null
  /\ ~showImprovements
  /\ editsSince > 0
  /\ Len(improvementScenarios) = 3

\* the number a row text shows
Shown(text) == parseFloat(text)

\* x rounded to f fraction digits, a tie going away from zero
Rounded(x, f) == Fin(Sign(x) * Scaled(x, f), Pow10(f))

\* C9 (as claimed): for every non-negative distraction count d with results
\* present, the Reduce Distractions row has optimized = d / 2 and gain =
\* -(d / 2), so that optimized = current + gain.
C9_HalvedExactly ==
  LET d == fieldNumber("distractions")
      row == improvementScenarios[1]
  IN  (results # Null /\ Le(Zero, d)) =>
        /\ Shown(row.optimized) = Div(d, Num(2))
        /\ Shown(row.gain) = Neg(Div(d, Num(2)))
        /\ Shown(row.optimized) = Add(Shown(row.current), Shown(row.gain))

\* C9 (amended): for every non-negative distraction count d with results
\* present, the Reduce Distractions row shows optimized = d / 2 rounded to the
\* selected number of decimals and gain = minus that rounded number (with 0
\* decimals an odd whole d shows (d + 1) / 2, so d = 75 shows optimized 38
\* and gain -38); optimized = d / 2, gain = -(d / 2) and optimized = current + gain
\* hold whenever d / 2 has no more fraction digits than are shown (at d = 10:
\* optimized 5, gain -5 at every setting).
C9_HalvedAsShown ==
  LET d == fieldNumber("distractions")
      half == Div(d, Num(2))
  IN  (results # Null /\ Le(Zero, d)) =>
        \A row \in {improvementScenarios[1]} :
          /\ Shown(row.optimized) = Rounded(half, decimals)
          /\ Shown(row.gain) = Neg(Rounded(half, decimals))
          /\ Rounded(half, decimals) = half =>
               /\ Shown(row.optimized) = half
               /\ Shown(row.gain) = Neg(half)
               /\ Shown(row.optimized) = Add(Shown(row.current), Shown(row.gain))
          /\ d = Num(10) => (Shown(row.optimized) = Num(5) /\ Shown(row.gain) = Num(-5))

C9_Witness ==
  /\ results # Null
  /\ inputs.distractions = <<"7", "5">>
  /\ decimals = 0
  /\ improvementScenarios[1].current = <<"7", "5", " distracoes">>
  /\ improvementScenarios[1].optimized = <<"3", "8", " distracoes">>
  /\ improvementScenarios[1].gain = <<"-", "3", "8", " distracoes">>

\* C10 (as claimed): whenever results are present, the Reduce Distractions
\* added value is half of results.valueLost and the Task Efficiency row's
\* current value is completedTasks / productiveHours of the inputs the other
\* two rows are computed from.
C10_RowsConsistentWithResults ==
  results # Null =>
    /\ improvementScenarios[1].addedValue =
         formatCurrency(Div(results.valueLost, Num(2)), decimals)
    /\ improvementScenarios[3].current =
         toFixed(taskEfficiencyOf(fieldNumber("completedTasks"),
                                  fieldNumber("productiveHours")).v, decimals)
           \o <<" tarefas/hora">>

\* C11: after Calculate with total hours > 0, efficiencyScore is
\* 0.4 x (productivityRate / 10) + 0.4 x (taskCompletionRate / 10) + 0.2 x D,
\* where D = max(0, 1 - timeLost / productiveHours) x 10 when productive hours
\* > 0 and D = 0 otherwise; D lies between 0 and 10 when timeLost is
\* non-negative.
C11_EfficiencyScoreFormula ==
  (Fresh /\ Gt(fieldNumber("totalHours"), Zero)) =>
    LET productiveHours == fieldNumber("productiveHours")
        remaining == Sub(Num(1), Div(results.timeLost, productiveHours))
        D == IF Gt(productiveHours, Zero)
             THEN Mul(IF Gt(remaining, Zero) THEN remaining ELSE Zero, Num(10))
             ELSE Zero
        score == distractionManagementScoreOf(results.timeLost, productiveHours).v
    IN  /\ results # Null
        /\ results.efficiencyScore =
             Add(Add(Mul(Fin(4, 10), Div(results.productivityRate, Num(10))),
                     Mul(Fin(4, 10), Div(results.taskCompletionRate, Num(10)))),
                 Mul(Fin(2, 10), D))
        /\ Le(Zero, results.timeLost) => (Le(Zero, score) /\ Le(score, Num(10)))

\* time lost (75 x 5 / 60 = 6.25 h) exceeds the 5 productive hours: D is 0
C11_Witness ==
  /\ Fresh
  /\ inputs.totalHours = <<"1", "0">>
  /\ inputs.productiveHours = <<"5">>
  /\ inputs.plannedTasks = <<"4">>
  /\ inputs.completedTasks = <<"5">>
  /\ inputs.distractions = <<"7", "5">>
  /\ inputs.recoveryTime = <<"5">>
  /\ results # Null
  /\ results.timeLost = Fin(25, 4)
  /\ results.efficiencyScore = Num(7)

C13_EditAndOptionFrames ==
  [][/\ EditField =>
          /\ \E name \in Fields :
               \A f \in Fields \ {name} : inputs'[f] = inputs[f]
          /\ results' = results
          /\ decimals' = decimals
          /\ showImprovements' = showImprovements
     /\ (showImprovements' # showImprovements \/ decimals' # decimals) =>
          (inputs' = inputs /\ results' = results)]_vars

\* results computed for total hours 10 are still stored after productive
\* hours was typed in, with the table hidden and the decimals changed
C13_Witness ==
  /\ calculated
  /\ editsSince = 1
  /\ results # Null
  /\ results.productivityRate = Zero
  /\ inputs.productiveHours = <<"5">>
  /\ decimals = 0
  /\ ~showImprovements

\* C14: Reset, from any reachable state, sets all eight fields to empty text
\* and results to null and leaves the decimal-places setting and the
\* show-scenarios toggle unchanged; a Calculate issued right after Reset
\* leaves results null.
C14_ResetFrame ==
  [][/\ handleReset =>
          /\ \A f \in Fields : inputs'[f] = Empty
          /\ results' = Null
          /\ decimals' = decimals
          /\ showImprovements' = showImprovements
     /\ (~calculated /\ inputs = initialInputData /\ calculateResults) =>
          results' = Null]_vars

\* every field empty and nothing stored, with both options away from their
\* defaults, and Calculate clicked in that state
C14_Witness ==
  /\ inputs = initialInputData
  /\ results = Null
  /\ calculated
  /\ decimals = 3
  /\ ~showImprovements

====
